---------------------------- MODULE Spec2Model ----------------------------
(***************************************************************************)
(* Model of sentinel.py, the Sentinel-Drift wrapper.                       *)
(*                                                                         *)
(*   SpecReport   parse_ansible_json, the Run-Report Reducer               *)
(*   SpecHistory  parse_audit_log, the History Reducer                     *)
(*   SpecVault    setup_vault_password and the environment handed to the   *)
(*                external process, for two runs that differ in the secret *)
(*                and the removal of the script when a run ends            *)
(*   SpecMain     main from the parsed command line to the end of the      *)
(*                process: safety checks, command, vault password, the two *)
(*                execution modes, the spinner thread, summary, exit code  *)
(*                                                                         *)
(* Text is a sequence of one-character strings, so that split, strip,      *)
(* startswith and the substring test are computed on characters.           *)
(***************************************************************************)
EXTENDS Integers, Sequences, FiniteSets, TLC

VARIABLES
    json_output,   \* parse_ansible_json: its argument
    report_out,    \* parse_ansible_json: the lines printed, in order
    report_pc,     \* "idle" before the call, "done" after it
    start_time,    \* parse_audit_log: its argument, the cutoff
    log_lines,     \* parse_audit_log: the lines of the log read so far
    host_report,   \* parse_audit_log: the items of host_report, in order
    history_out,   \* parse_audit_log: the lines printed, in order
    history_pc,    \* "idle", "reading" (inside the for loop), "done"
    vault_pass,    \* main: how --vault-pass was given: "none", "value", "prompt"
    tmp_file,      \* the name tempfile.mkstemp returns
    secret,        \* per run: the vault password given or typed
    files,         \* per run: the files written, path :> contents and mode
    cmd,           \* per run: the command line of the external process
    vault_value,   \* per run: what setup_vault_password returned
    atexit_funcs,  \* per run: the paths cleanup_vault_file is registered for
    env,           \* per run: the environment built for the external process
    ext_proc,      \* per run: the argv and environment the process was run with
    vault_pc,      \* per run: "start", "setup", "env", "run", "ended"
    cleanup_calls, \* per run: how often cleanup_vault_file has been called
    cleanup_raised, \* per run: whether a call of cleanup_vault_file raised
    args,          \* main: the parsed command line (auto_fix, ask_fix, report, verbose)
    response,      \* main: what the operator typed at the two confirmation prompts
    main_pc,       \* main: where the main thread is
    terminal,      \* main: the writes that reached the terminal, in order
    stop_running,  \* Spinner.stop_running
    thread,        \* Spinner.thread: "none", or where spin is: "check", "write", "finished"
    stop_pc,       \* Spinner.stop: "idle" outside it, else "join", "clear"
    result,        \* main: what subprocess.run returned: returncode and stdout
    exit_status,   \* main: how the process ended: exit code, or the signal
    audit_log,     \* main: audit_history.log as parse_audit_log found it
    called         \* main: the functions main has called, in order

reportVars == <<json_output, report_out, report_pc>>

historyVars == <<start_time, log_lines, host_report, history_out, history_pc>>

vaultVars == <<vault_pass, tmp_file, secret, files, cmd, vault_value,
               atexit_funcs, env, ext_proc, vault_pc, cleanup_calls,
               cleanup_raised>>

vars == <<json_output, report_out, report_pc,
          start_time, log_lines, host_report, history_out, history_pc,
          vault_pass, tmp_file, secret, files, cmd, vault_value,
          atexit_funcs, env, ext_proc, vault_pc, cleanup_calls,
          cleanup_raised,
          args, response, main_pc, terminal, stop_running, thread, stop_pc,
          result, exit_status, audit_log, called>>

mainVars == <<args, response, main_pc, terminal, stop_running, thread, stop_pc,
              result, exit_status, audit_log, called>>

-----------------------------------------------------------------------------
(* Python str operations, on sequences of characters.                      *)

Whitespace == {" ", "\n", "\t"}

\* p occurs in s starting at index i (1-based).
MatchesAt(s, p, i) ==
    /\ i >= 1
    /\ i + Len(p) - 1 <= Len(s)
    /\ \A j \in 1..Len(p) : s[i + j - 1] = p[j]

\* str.find: the least index >= from at which p occurs in s, 0 when none.
Find(s, p, from) ==
    LET hits == {i \in from..(Len(s) - Len(p) + 1) : MatchesAt(s, p, i)}
    IN  IF hits = {} THEN 0 ELSE CHOOSE i \in hits : \A j \in hits : i <= j

\* p in s
Contains(s, p) == Find(s, p, 1) # 0

\* s.startswith(p)
StartsWith(s, p) == MatchesAt(s, p, 1)

\* s.split(sep), sep not empty: the pieces between the occurrences of sep.
RECURSIVE Split(_, _)
Split(s, sep) ==
    LET i == Find(s, sep, 1)
    IN  IF i = 0 THEN <<s>>
        ELSE <<SubSeq(s, 1, i - 1)>> \o Split(SubSeq(s, i + Len(sep), Len(s)), sep)

\* s.split(sep, maxsplit): at most maxsplit cuts, the rest left whole.
RECURSIVE SplitMax(_, _, _)
SplitMax(s, sep, maxsplit) ==
    LET i == Find(s, sep, 1)
    IN  IF maxsplit = 0 \/ i = 0 THEN <<s>>
        ELSE <<SubSeq(s, 1, i - 1)>>
             \o SplitMax(SubSeq(s, i + Len(sep), Len(s)), sep, maxsplit - 1)

\* s.strip(chars): drop leading and trailing characters that are in chars.
StripChars(s, chars) ==
    LET keep  == {i \in 1..Len(s) : s[i] \notin chars}
        first == CHOOSE i \in keep : \A j \in keep : i <= j
        last  == CHOOSE i \in keep : \A j \in keep : i >= j
    IN  IF keep = {} THEN <<>> ELSE SubSeq(s, first, last)

\* s.strip()
Strip(s) == StripChars(s, Whitespace)

\* s.splitlines(): the lines of s; a final line break opens no further line.
\* "\n" is the only line boundary among the characters used here.
RECURSIVE SplitLines(_)
SplitLines(s) ==
    LET i == Find(s, <<"\n">>, 1)
    IN  IF s = <<>> THEN <<>>
        ELSE IF i = 0 THEN <<s>>
        ELSE <<SubSeq(s, 1, i - 1)>> \o SplitLines(SubSeq(s, i + 1, Len(s)))

\* sep.join(parts)
RECURSIVE Join(_, _)
Join(parts, sep) ==
    IF parts = <<>> THEN <<>>
    ELSE IF Len(parts) = 1 THEN parts[1]
    ELSE parts[1] \o sep \o Join(Tail(parts), sep)

\* s.replace(old, ""): s without the occurrences of old.
Remove(s, old) == Join(Split(s, old), <<>>)

\* The concatenation of a sequence of sequences.
RECURSIVE Flatten(_)
Flatten(ss) == IF ss = <<>> THEN <<>> ELSE Head(ss) \o Flatten(Tail(ss))

-----------------------------------------------------------------------------
(* Constants of sentinel.py.                                               *)

DRIFT_TASKS == {"Display Diff", "Display Metadata Drift",
                "Display Missing File Warning", "Display Vault Error"}

FIX_TASKS == {"Display Fix Applied"}

\* The marker "FIXED: " that parse_ansible_json looks for in a fix message.
FIXED_MARKER == <<"F", "I", "X", "E", "D", ":", " ">>

PLAYBOOK_FILE == "sentinel_drift.yml"

\* The indentation put before every detail line.
INDENT == <<" ", " ", " ", " ">>

-----------------------------------------------------------------------------
(* parse_ansible_json.  A payload is [valid, dict, stats, plays]: valid is *)
(* whether json.loads accepts the text and dict whether the value is a     *)
(* JSON object; stats is the items of the stats                            *)
(* dict in order, [host, unreachable, failures]; plays is a sequence of    *)
(* plays, a play the sequence of its tasks, a task [name, hosts] with      *)
(* hosts the items of its hosts dict in order, [host, skipped, msg].       *)

\* The tasks of all plays in document order (the two nested for loops).
AllTasks(plays) == Flatten(plays)

\* Mutation of TaskMsgs: the skipped flag of a result is not looked at.
TaskMsgs_skipped_too(task, host) ==
    LET picks == [i \in 1..Len(task.hosts) |->
                    IF task.hosts[i].host = host
                    THEN <<task.hosts[i].msg>> ELSE <<>>]
    IN  Flatten(picks)

\* The messages one task appends to host's list, when the task feeds it.
TaskMsgs(task, host) ==
    LET picks == [i \in 1..Len(task.hosts) |->
                    IF task.hosts[i].host = host /\ ~task.hosts[i].skipped
                    THEN <<task.hosts[i].msg>> ELSE <<>>]
    IN  Flatten(picks)

\* host_drifts[host] after the scan.
RECURSIVE host_drifts(_, _)
host_drifts(tasks, host) ==
    IF tasks = <<>> THEN <<>>
    ELSE (IF Head(tasks).name \in DRIFT_TASKS
          THEN TaskMsgs(Head(tasks), host) ELSE <<>>)
         \o host_drifts(Tail(tasks), host)

\* host_fixes[host] after the scan (the elif: only when not a drift task).
RECURSIVE host_fixes(_, _)
host_fixes(tasks, host) ==
    IF tasks = <<>> THEN <<>>
    ELSE (IF Head(tasks).name \notin DRIFT_TASKS /\ Head(tasks).name \in FIX_TASKS
          THEN TaskMsgs(Head(tasks), host) ELSE <<>>)
         \o host_fixes(Tail(tasks), host)

\* fixed_files: for each fix message holding the marker, the stripped text
\* between the first marker and the next one (split(...)[1].strip()).
fixed_files(fixes) ==
    Flatten([i \in 1..Len(fixes) |->
                IF Contains(fixes[i], FIXED_MARKER)
                THEN <<Strip(Split(fixes[i], FIXED_MARKER)[2])>>
                ELSE <<>>])

\* Mutation of is_fixed: the fixed file is compared with the whole message.
is_fixed_exact(dmsg, ffiles) ==
    \E i \in 1..Len(ffiles) : dmsg = ffiles[i]

\* is_fixed: some fixed file is a substring of the drift message.
is_fixed(dmsg, ffiles) ==
    \E i \in 1..Len(ffiles) : Contains(dmsg, ffiles[i])

\* Mutation of remaining_drifts: once a file is fixed no drift is kept.
remaining_drifts_none_after_fix(drifts, ffiles) ==
    IF ffiles # <<>> THEN <<>> ELSE drifts

\* remaining_drifts: the drift messages that no fixed file suppresses.
remaining_drifts(drifts, ffiles) ==
    Flatten([i \in 1..Len(drifts) |->
                IF is_fixed(drifts[i], ffiles) THEN <<>> ELSE <<drifts[i]>>])

\* formatted_msg: every line of the message indented, joined by line breaks.
formatted_msg(msg) ==
    LET lines == SplitLines(msg)
    IN  Join([i \in 1..Len(lines) |-> INDENT \o lines[i]], <<"\n">>)

\* The printed lines.
HeaderLine == [kind |-> "header", host |-> "", label |-> "", msg |-> <<>>, text |-> <<>>]
ParseErrorLine == [kind |-> "parse_error", host |-> "", label |-> "", msg |-> <<>>, text |-> <<>>]
BlankLine(h) == [kind |-> "blank", host |-> h, label |-> "", msg |-> <<>>, text |-> <<>>]
StatusLine(h, l) == [kind |-> "status", host |-> h, label |-> l, msg |-> <<>>, text |-> <<>>]
FixLine(h, m) == [kind |-> "fix", host |-> h, label |-> "", msg |-> m, text |-> INDENT \o m]
DriftLine(h, m) == [kind |-> "drift", host |-> h, label |-> "", msg |-> m, text |-> formatted_msg(m)]

\* Mutation of stat_unreachable: the failures counter is looked at first.
stat_unreachable_after_failures(stat) ==
    stat.unreachable > 0 /\ stat.failures = 0

\* stat.get('unreachable', 0) > 0
stat_unreachable(stat) == stat.unreachable > 0

\* Mutation of stat_failed: one failure is let through.
stat_failed_above_one(stat) == stat.failures > 1

\* stat.get('failures', 0) > 0
stat_failed(stat) == stat.failures > 0

\* "If we have fixes, show them": the FIXED line and one line per fix message.
FixBlock(host, fixes) ==
    IF fixes # <<>>
    THEN <<StatusLine(host, "FIXED")>>
         \o [i \in 1..Len(fixes) |-> FixLine(host, fixes[i])]
    ELSE <<>>

\* Mutation of DriftBlock: an elif, so that a host with fixes shows no drift.
DriftBlock_elif(host, remain, fixes) ==
    IF fixes # <<>> THEN <<BlankLine(host)>>
    ELSE IF remain # <<>>
    THEN <<StatusLine(host, "DRIFT DETECTED")>>
         \o [i \in 1..Len(remain) |-> DriftLine(host, remain[i])]
         \o <<BlankLine(host)>>
    ELSE <<>>

\* The DRIFT DETECTED line, the remaining drift messages and an empty line;
\* only the empty line when there are fixes and no drift remains.
DriftBlock(host, remain, fixes) ==
    IF remain # <<>>
    THEN <<StatusLine(host, "DRIFT DETECTED")>>
         \o [i \in 1..Len(remain) |-> DriftLine(host, remain[i])]
         \o <<BlankLine(host)>>
    ELSE IF fixes # <<>> THEN <<BlankLine(host)>>
    ELSE <<>>

\* One iteration of the final loop: what is printed for one item of stats.
HostSummary(stat, tasks) ==
    LET host    == stat.host
        drifts  == host_drifts(tasks, host)
        fixes   == host_fixes(tasks, host)
        remain  == remaining_drifts(drifts, fixed_files(fixes))
    IN  IF stat_unreachable(stat) THEN <<StatusLine(host, "UNREACHABLE")>>
        ELSE IF stat_failed(stat) THEN <<StatusLine(host, "FAILED")>>
        ELSE IF drifts = <<>> /\ fixes = <<>>
             THEN <<StatusLine(host, "OK (Compliant)")>>
        ELSE FixBlock(host, fixes) \o DriftBlock(host, remain, fixes)

\* Mutation of parse_ansible_json: the header is printed before json.loads.
parse_ansible_json_header_first(p) ==
    IF ~p.valid THEN <<HeaderLine, ParseErrorLine>>
    ELSE <<HeaderLine>>
         \o Flatten([i \in 1..Len(p.stats) |-> HostSummary(p.stats[i], AllTasks(p.plays))])

\* Everything parse_ansible_json prints for a payload.
parse_ansible_json(p) ==
    IF ~p.valid THEN <<ParseErrorLine>>
    ELSE <<HeaderLine>>
         \o Flatten([i \in 1..Len(p.stats) |-> HostSummary(p.stats[i], AllTasks(p.plays))])

\* data.get raises AttributeError: the text is JSON and no JSON object.
raises_attribute_error(p) == p.valid /\ ~p.dict

\* host_drifts[host] or host_fixes[host] raises KeyError: a result that is
\* not skipped, of a drift or fix task, names a host that is no key of stats.
raises_key_error(p) ==
    /\ p.valid /\ p.dict
    /\ LET tasks == AllTasks(p.plays)
           hosts == {p.stats[i].host : i \in 1..Len(p.stats)}
       IN  \E t \in 1..Len(tasks) :
              /\ tasks[t].name \in DRIFT_TASKS \cup FIX_TASKS
              /\ \E i \in 1..Len(tasks[t].hosts) :
                    /\ ~tasks[t].hosts[i].skipped
                    /\ tasks[t].hosts[i].host \notin hosts

\* The call does not return: an exception leaves parse_ansible_json.
parse_raises(p) == raises_attribute_error(p) \/ raises_key_error(p)

\* What the call has printed when it returns or raises: nothing before
\* data.get, the header before the scan of the tasks.
parse_printed(p) ==
    IF raises_attribute_error(p) THEN <<>>
    ELSE IF raises_key_error(p) THEN <<HeaderLine>>
    ELSE parse_ansible_json(p)

-----------------------------------------------------------------------------
(* The payloads parse_ansible_json is applied to.                          *)
(*                                                                         *)
(* Every host that has a task result is a key of stats: the json callback  *)
(* of the external engine writes a stats entry for every processed host    *)
(* (host_drifts[host] of a host outside stats would raise KeyError).       *)
(* Two families: one host with many shapes of message (ReduceSingleHost)   *)
(* and two hosts with few (ReduceTwoHosts).                                *)

MaxTasksA == 3    \* tasks of a payload with one host
MaxTasksB == 2    \* tasks of a payload with two hosts

Counts == {0, 1}  \* values of the counters unreachable and failures

\* "" (a result without msg), "/a", "/ab" (has "/a" as a prefix), "/b" with a
\* second line, "FIXED: /a", "* FIXED: /b " with a line break at its end,
\* "FIXED: ".
MsgsA == { <<>>,
           <<"/", "a">>,
           <<"/", "a", "b">>,
           <<"/", "b", "\n", "x">>,
           FIXED_MARKER \o <<"/", "a">>,
           <<"*", " ">> \o FIXED_MARKER \o <<"/", "b", " ", "\n">>,
           FIXED_MARKER }

\* "FIXED: /a" (as a drift message it holds "/a") and "/b".
MsgsB == { FIXED_MARKER \o <<"/", "a">>, <<"/", "b">> }

Result(h, s, m) == [host |-> h, skipped |-> s, msg |-> m]

\* The tasks as one play, or as two plays with the first task in the first.
PlaySplits(tasks) ==
    {<<tasks>>}
    \cup (IF tasks = <<>> THEN {<<>>} ELSE {<<<<Head(tasks)>>, Tail(tasks)>>})

TasksA ==
    {[name |-> n, hosts |-> <<r>>] :
        n \in {"Display Diff", "Display Fix Applied"},
        r \in {Result("web1", TRUE, <<"/", "a">>)}
              \cup {Result("web1", FALSE, m) : m \in MsgsA}}

Payload(st, ps) == [valid |-> TRUE, dict |-> TRUE, stats |-> st, plays |-> ps]

StatsA ==
    {<<[host |-> "web1", unreachable |-> u, failures |-> f]>> :
        u \in Counts, f \in Counts}

\* What a task holds for one host: nothing, or a result with a message.
HostResultsB(h) == {<<>>} \cup {<<Result(h, FALSE, m)>> : m \in MsgsB}

TasksB ==
    {[name |-> n, hosts |-> r1 \o r2] :
        n \in {"Display Metadata Drift", "Display Fix Applied", "Gathering Facts"},
        r1 \in HostResultsB("web1"), r2 \in HostResultsB("db1")}

StatsB ==
    {<<[host |-> hs[1], unreachable |-> u1, failures |-> f1],
       [host |-> hs[2], unreachable |-> u2, failures |-> f2]>> :
        hs \in {<<"web1", "db1">>, <<"db1", "web1">>},
        u1 \in Counts, f1 \in Counts, u2 \in Counts, f2 \in Counts}

\* Text that json.loads rejects.
InvalidPayload == [valid |-> FALSE, dict |-> FALSE, stats |-> <<>>, plays |-> <<>>]

-----------------------------------------------------------------------------
(* The call of parse_ansible_json.                                         *)

ReportIdle ==
    /\ json_output = InvalidPayload
    /\ report_out = <<>>
    /\ report_pc = "idle"

\* parse_ansible_json touches nothing of parse_audit_log.
ReportFrame == UNCHANGED <<historyVars, vaultVars, mainVars>>

\* The call for payload p: json.loads, and when it succeeds the header, the
\* scan of the tasks and the final loop.
Call(p) ==
    /\ json_output' = p
    /\ report_out' = parse_ansible_json(p)
    /\ report_pc' = "done"
    /\ ReportFrame

\* json.loads raises JSONDecodeError: one line is printed and the call returns.
ParseFailure == report_pc = "idle" /\ Call(InvalidPayload)

\* A payload with one host.
ReduceSingleHost ==
    /\ report_pc = "idle"
    /\ \E st \in StatsA, k \in 0..MaxTasksA :
        \E ts \in [1..k -> TasksA] :
            \E ps \in PlaySplits(ts) : Call(Payload(st, ps))

\* A payload with two hosts, its tasks in one play.
ReduceTwoHosts ==
    /\ report_pc = "idle"
    /\ \E st \in StatsB, k \in 0..MaxTasksB :
        \E ts \in [1..k -> TasksB] : Call(Payload(st, <<ts>>))

-----------------------------------------------------------------------------
(* Properties of the Run-Report Reducer (SpecReport).                      *)

\* The call has returned for a payload that json.loads accepted.
Reduced == report_pc = "done" /\ json_output.valid

\* The items of stats.
Stats == {json_output.stats[i] : i \in 1..Len(json_output.stats)}

\* The task outcomes of the payload in document order: play by play, task by
\* task, and within a task the items of its hosts dict.
Outcomes ==
    LET tasks == Flatten(json_output.plays)
    IN  Flatten([t \in 1..Len(tasks) |->
            [i \in 1..Len(tasks[t].hosts) |->
                [name    |-> tasks[t].name,
                 host    |-> tasks[t].hosts[i].host,
                 skipped |-> tasks[t].hosts[i].skipped,
                 msg     |-> tasks[t].hosts[i].msg]]])

\* The messages of a host's results of the tasks named in names that are not
\* skipped, in document order.
MsgsOf(h, names) ==
    LET sel == SelectSeq(Outcomes,
                   LAMBDA o : o.host = h /\ o.name \in names /\ ~o.skipped)
    IN  [i \in 1..Len(sel) |-> sel[i].msg]

Range(seq) == {seq[i] : i \in 1..Len(seq)}

\* The file paths of a host's fix messages: the text after the marker.
FixedPaths(h) ==
    {Strip(Split(m, FIXED_MARKER)[2]) :
        m \in {x \in Range(MsgsOf(h, FIX_TASKS)) : Contains(x, FIXED_MARKER)}}

\* A message that holds none of the host's fixed-file paths.
Unsuppressed(h, m) == \A f \in FixedPaths(h) : ~Contains(m, f)

\* What was printed for a host, and the part of it with a given kind.
LinesOf(h) == SelectSeq(report_out, LAMBDA l : l.host = h)
LinesOfKind(h, k) == SelectSeq(report_out, LAMBDA l : l.host = h /\ l.kind = k)

\* The states a host is reported under, in the order printed.
LabelsOf(h) ==
    LET ls == LinesOfKind(h, "status") IN [i \in 1..Len(ls) |-> ls[i].label]

\* The detail lines printed for a host, as <<kind, message>>.
DetailsOf(h) ==
    LET ls == SelectSeq(report_out,
                  LAMBDA l : l.host = h /\ l.kind \in {"fix", "drift"})
    IN  [i \in 1..Len(ls) |-> <<ls[i].kind, ls[i].msg>>]

HostOk(st) == st.unreachable = 0 /\ st.failures = 0

\* C1: for a host that is neither unreachable nor failed, no drift message
\* shown for it contains a file path taken from one of its fix messages,
\* neither the message nor the indented text printed for it.
C1_NoFixedDriftShown ==
    Reduced =>
        \A st \in Stats : HostOk(st) =>
            \A i \in 1..Len(report_out) :
                (report_out[i].kind = "drift" /\ report_out[i].host = st.host) =>
                    \A f \in FixedPaths(st.host) :
                        /\ ~Contains(report_out[i].msg, f)
                        /\ ~Contains(report_out[i].text, f)

\* A host with a drift message that holds a non-empty fixed path (it is
\* dropped) next to a drift message that is shown.
C1_Witness ==
    /\ Reduced
    /\ \E st \in Stats :
        /\ HostOk(st)
        /\ \E m \in Range(MsgsOf(st.host, DRIFT_TASKS)) :
              \E f \in FixedPaths(st.host) : f # <<>> /\ Contains(m, f)
        /\ LinesOfKind(st.host, "drift") # <<>>

\* C2: a host whose unreachable counter is above 0 is reported UNREACHABLE and
\* nothing else is printed for it, whatever its results and its failures.
C2_UnreachableWins ==
    Reduced =>
        \A st \in Stats : st.unreachable > 0 =>
            LinesOf(st.host) = <<StatusLine(st.host, "UNREACHABLE")>>

\* An unreachable host that also has failures, a drift message and a fix.
C2_Witness ==
    /\ Reduced
    /\ \E st \in Stats :
        /\ st.unreachable > 0 /\ st.failures > 0
        /\ MsgsOf(st.host, DRIFT_TASKS) # <<>>
        /\ MsgsOf(st.host, FIX_TASKS) # <<>>
        /\ LabelsOf(st.host) = <<"UNREACHABLE">>

\* C3: a host with failures above 0 and unreachable 0 is reported FAILED and
\* nothing else is printed for it, also when it has drift or fix results.
C3_FailedNext ==
    Reduced =>
        \A st \in Stats : (st.failures > 0 /\ st.unreachable = 0) =>
            LinesOf(st.host) = <<StatusLine(st.host, "FAILED")>>

\* A failed, reachable host that has a drift message and a fix message.
C3_Witness ==
    /\ Reduced
    /\ \E st \in Stats :
        /\ st.failures > 0 /\ st.unreachable = 0
        /\ MsgsOf(st.host, DRIFT_TASKS) # <<>>
        /\ MsgsOf(st.host, FIX_TASKS) # <<>>
        /\ LabelsOf(st.host) = <<"FAILED">>

\* C4: for a host that is neither unreachable nor failed and has fixes, the
\* detail lines are all its fix messages in scan order, then its drift
\* messages that hold none of its fixed paths, in scan order.
C4_FixesThenRemainingDrifts ==
    Reduced =>
        \A st \in Stats :
            (HostOk(st) /\ MsgsOf(st.host, FIX_TASKS) # <<>>) =>
                LET fixes  == MsgsOf(st.host, FIX_TASKS)
                    drifts == SelectSeq(MsgsOf(st.host, DRIFT_TASKS),
                                  LAMBDA m : Unsuppressed(st.host, m))
                IN  DetailsOf(st.host) =
                        [i \in 1..Len(fixes) |-> <<"fix", fixes[i]>>]
                        \o [i \in 1..Len(drifts) |-> <<"drift", drifts[i]>>]

\* A host whose first outcome is a drift, with a fix after it in a later play
\* and two different drift messages retained.
C4_Witness ==
    /\ Reduced
    /\ Len(json_output.plays) = 2
    /\ \E st \in Stats :
        /\ HostOk(st)
        /\ Outcomes[1].name \in DRIFT_TASKS
        /\ MsgsOf(st.host, FIX_TASKS) # <<>>
        /\ FixedPaths(st.host) # {}
        /\ LET ds == LinesOfKind(st.host, "drift")
           IN  Len(ds) = 2 /\ ds[1].msg # ds[2].msg

FiveStates == {"OK (Compliant)", "DRIFT DETECTED", "FIXED", "FAILED", "UNREACHABLE"}

\* C5 as stated: every host of stats is reported under exactly one of the
\* five states.
C5_ExactlyOneState ==
    Reduced =>
        \A st \in Stats :
            Len(LabelsOf(st.host)) = 1 /\ LabelsOf(st.host)[1] \in FiveStates

\* A host is reported FIXED and DRIFT DETECTED: it is neither unreachable nor
\* failed, has a fix, and a drift message is left after suppression.
FixedAndDrifted(st) ==
    /\ HostOk(st)
    /\ MsgsOf(st.host, FIX_TASKS) # <<>>
    /\ \E m \in Range(MsgsOf(st.host, DRIFT_TASKS)) : Unsuppressed(st.host, m)

\* C5 amended: every host of stats is reported under exactly one of the five
\* states, except a host with a fix and a drift message left after
\* suppression, which is reported FIXED and then DRIFT DETECTED.
C5_OneStateOrFixedThenDrift ==
    Reduced =>
        \A st \in Stats :
            IF FixedAndDrifted(st)
            THEN LabelsOf(st.host) = <<"FIXED", "DRIFT DETECTED">>
            ELSE Len(LabelsOf(st.host)) = 1 /\ LabelsOf(st.host)[1] \in FiveStates

\* Two hosts, one reported under two states and the other under one.
C5_Witness ==
    /\ Reduced
    /\ \E s1 \in Stats, s2 \in Stats :
        /\ s1.host # s2.host
        /\ LabelsOf(s1.host) = <<"FIXED", "DRIFT DETECTED">>
        /\ Len(LabelsOf(s2.host)) = 1

\* C17: for a payload that json.loads rejects, the call returns without an
\* exception and has printed the parse failure and nothing else: no header,
\* no status line, no detail line.
C17_ParseFailureOnly ==
    (report_pc = "done" /\ ~json_output.valid) =>
        /\ ~parse_raises(json_output)
        /\ report_out = <<ParseErrorLine>>
        /\ \A i \in 1..Len(report_out) :
              report_out[i].kind \notin {"header", "status", "fix", "drift", "blank"}

\* The call has returned for a payload that json.loads rejected.
C17_Witness ==
    /\ report_pc = "done" /\ ~json_output.valid
    /\ Len(report_out) = 1 /\ report_out[1].kind = "parse_error"

\* C19: a host's drift list (fix list) is the messages of its results that
\* are not skipped and belong to a task of the drift-reporting (fix-applied)
\* set, in document order; and a host that is neither unreachable nor failed
\* is reported compliant, with nothing else printed for it, exactly when no
\* result of it is of that kind.
C19_ContributionRule ==
    Reduced =>
        \A st \in Stats :
            LET h      == st.host
                tasks  == AllTasks(json_output.plays)
                counts == \E i \in 1..Len(Outcomes) :
                             /\ Outcomes[i].host = h
                             /\ ~Outcomes[i].skipped
                             /\ Outcomes[i].name \in DRIFT_TASKS \cup FIX_TASKS
            IN  /\ host_drifts(tasks, h) = MsgsOf(h, DRIFT_TASKS)
                /\ host_fixes(tasks, h) = MsgsOf(h, FIX_TASKS)
                /\ HostOk(st) =>
                      (~counts <=> LinesOf(h) = <<StatusLine(h, "OK (Compliant)")>>)

\* A host that is neither unreachable nor failed, with a skipped result of a
\* drift task and a skipped result of a fix task, reported compliant.
C19_Witness ==
    /\ Reduced
    /\ \E st \in Stats :
        /\ HostOk(st)
        /\ \E i \in 1..Len(Outcomes), j \in 1..Len(Outcomes) :
              /\ Outcomes[i].host = st.host /\ Outcomes[i].skipped
              /\ Outcomes[i].name \in DRIFT_TASKS
              /\ Outcomes[j].host = st.host /\ Outcomes[j].skipped
              /\ Outcomes[j].name \in FIX_TASKS
        /\ LinesOf(st.host) = <<StatusLine(st.host, "OK (Compliant)")>>

-----------------------------------------------------------------------------
(* parse_audit_log.  A log line is text; the timestamp of a line is        *)
(* written as one digit, and strptime accepts exactly the digits.          *)

Chr(c) == <<c>>

S_OK      == <<"O", "K">>
S_DRIFT   == <<"D", "R", "I", "F", "T">>
S_FIXED   == <<"F", "I", "X", "E", "D">>
S_Unknown == <<"U", "n", "k", "n", "o", "w", "n">>
S_Host    == <<"H", "o", "s", "t", ":", " ">>
S_File    == <<"F", "i", "l", "e", ":", " ">>
S_Type    == <<"T", "y", "p", "e", ":", " ">>
S_Bar     == <<" ", "|", " ">>
S_vault_error == <<"v", "a", "u", "l", "t", "_", "e", "r", "r", "o", "r">>

\* datetime.strptime(ts_str, "%Y-%m-%d %H:%M:%S"): the time, or -1 for
\* ValueError.
strptime(ts_str) ==
    IF Len(ts_str) # 1 THEN -1
    ELSE CASE ts_str[1] = "0" -> 0
           [] ts_str[1] = "1" -> 1
           [] ts_str[1] = "2" -> 2
           [] ts_str[1] = "3" -> 3
           [] ts_str[1] = "4" -> 4
           [] OTHER -> -1

\* The value of a detail field after the loop over the parts of details: the
\* last part that starts with key, with key removed; the default when no
\* part does.  (No part starts with two of the keys, so elif is if.)
RECURSIVE DetailField(_, _, _)
DetailField(parts, key, default) ==
    IF parts = <<>> THEN default
    ELSE LET part == Strip(Head(parts))
         IN  DetailField(Tail(parts), key,
                         IF StartsWith(part, key) THEN Remove(part, key) ELSE default)

\* Mutation of before_cutoff: a record at the cutoff is dropped too.
before_cutoff_inclusive(log_time, start) == log_time <= start

\* log_time < start_time: the record is older than the cutoff.
before_cutoff(log_time, start) == log_time < start

\* The body of the for loop up to the host entry: the record a line stands
\* for, or skip when the loop continues with the next line.
Skip == [skip |-> TRUE, status |-> <<>>, host |-> <<>>,
         file_path |-> <<>>, drift_type |-> <<>>]

ParseLine(raw, start) ==
    LET line     == Strip(raw)
        ts_str   == StripChars(Split(line, Chr("]"))[1], {"["})
        log_time == strptime(ts_str)
        parts    == SplitMax(line, <<"]", " ">>, 2)
        status   == StripChars(parts[2], {"[", "]"})
        details  == IF Len(parts) > 2 THEN parts[3] ELSE <<>>
        dparts   == Split(details, S_Bar)
    IN  IF ~StartsWith(line, Chr("[")) THEN Skip
        ELSE IF log_time = -1 THEN Skip
        ELSE IF before_cutoff(log_time, start) THEN Skip
        ELSE IF Len(parts) < 2 THEN Skip
        ELSE [skip       |-> FALSE,
              status     |-> status,
              host       |-> DetailField(dparts, S_Host, S_Unknown),
              file_path  |-> DetailField(dparts, S_File, S_Unknown),
              drift_type |-> DetailField(dparts, S_Type, S_Unknown)]

\* The messages appended to a host's entry.  The note is one element.
VAULT_NOTE == <<"\n", " ", " ", " ", " ",
                "VAULT ERROR: Source file is encrypted but password was missing.">>

DriftMsg(file_path, drift_type) ==
    S_File \o file_path \o <<" ", "(">> \o S_Type \o drift_type \o <<")">>
    \o (IF drift_type = S_vault_error THEN VAULT_NOTE ELSE <<>>)

FixedMsg(file_path) ==
    S_File \o file_path \o <<" ", "(", "F", "I", "X", "E", "D", ")">>

\* host in host_report, and the index of its item.
HasHost(report, host) == \E i \in 1..Len(report) : report[i].host = host
IndexOf(report, host) == CHOOSE i \in 1..Len(report) : report[i].host = host

\* Mutation of UpdateEntry: FIXED takes precedence, a later DRIFT record
\* adds its message and leaves the state FIXED.
UpdateEntry_fixed_sticks(entry, rec) ==
    IF rec.status = S_DRIFT
    THEN [entry EXCEPT !.status = IF @ = "FIXED" THEN "FIXED" ELSE "DRIFT",
                       !.messages = Append(@, DriftMsg(rec.file_path, rec.drift_type))]
    ELSE IF rec.status = S_FIXED
    THEN [entry EXCEPT !.status = "FIXED",
                       !.messages = Append(@, FixedMsg(rec.file_path))]
    ELSE entry

\* Mutation of UpdateEntry: an OK record sets the state to OK.
UpdateEntry_ok_resets(entry, rec) ==
    IF rec.status = S_DRIFT
    THEN [entry EXCEPT !.status = "DRIFT",
                       !.messages = Append(@, DriftMsg(rec.file_path, rec.drift_type))]
    ELSE IF rec.status = S_FIXED
    THEN [entry EXCEPT !.status = "FIXED",
                       !.messages = Append(@, FixedMsg(rec.file_path))]
    ELSE IF rec.status = S_OK
    THEN [entry EXCEPT !.status = "OK"]
    ELSE entry

\* "Update status based on log entry": the entry after a record.
UpdateEntry(entry, rec) ==
    IF rec.status = S_DRIFT
    THEN [entry EXCEPT !.status = "DRIFT",
                       !.messages = Append(@, DriftMsg(rec.file_path, rec.drift_type))]
    ELSE IF rec.status = S_FIXED
    THEN [entry EXCEPT !.status = "FIXED",
                       !.messages = Append(@, FixedMsg(rec.file_path))]
    ELSE entry

\* One iteration of the for loop over the lines: host_report after the line.
ApplyLine(report, raw, start) ==
    LET rec == ParseLine(raw, start)
        rep == IF HasHost(report, rec.host) THEN report
               ELSE Append(report, [host |-> rec.host, status |-> "OK", messages |-> <<>>])
        i   == IndexOf(rep, rec.host)
    IN  IF rec.skip THEN report
        ELSE [rep EXCEPT ![i] = UpdateEntry(rep[i], rec)]

\* The printed lines.
HistHeaderLine == [kind |-> "header", host |-> <<>>, label |-> "", msg |-> <<>>]
HistErrorLine == [kind |-> "error", host |-> <<>>, label |-> "", msg |-> <<>>]
HistBlankLine(h) == [kind |-> "blank", host |-> h, label |-> "", msg |-> <<>>]
HistStatusLine(h, l) == [kind |-> "status", host |-> h, label |-> l, msg |-> <<>>]
HistMsgLine(h, m) == [kind |-> "message", host |-> h, label |-> "", msg |-> INDENT \o m]

\* "Render the summary to console": what is printed for one item.
RenderEntry(e) ==
    (IF e.status = "OK" THEN <<HistStatusLine(e.host, "OK (Compliant)")>>
     ELSE IF e.status = "FIXED"
     THEN <<HistStatusLine(e.host, "DRIFT FIXED")>>
          \o [i \in 1..Len(e.messages) |-> HistMsgLine(e.host, e.messages[i])]
     ELSE <<HistStatusLine(e.host, "DRIFT DETECTED")>>
          \o [i \in 1..Len(e.messages) |-> HistMsgLine(e.host, e.messages[i])])
    \o <<HistBlankLine(e.host)>>

Render(report) == Flatten([i \in 1..Len(report) |-> RenderEntry(report[i])])

-----------------------------------------------------------------------------
(* The log lines parse_audit_log is applied to.  A line is described by    *)
(* its shape and fields and written out by LineText.                       *)

MaxLines == 3         \* lines of the log

StartTimes == {2, 3}  \* the cutoff
Stamp(t) == IF t = 1 THEN <<"1">> ELSE <<"2">>

H_web1 == <<"w", "e", "b", "1">>
H_db1  == <<"d", "b", "1">>
S_WARN == <<"W", "A", "R", "N">>

\* "[<t>] [<status>] Host: <host> | File: <file> | Type: <type>"
RecordLine(t, status, host, file, type) ==
    <<"[">> \o Stamp(t) \o <<"]", " ", "[">> \o status \o <<"]", " ">>
    \o S_Host \o host \o S_Bar \o S_File \o file \o S_Bar \o S_Type \o type

\* The lines in the format of the log, and those with another status.
FormatLines ==
    {[shape |-> "record", t |-> t, status |-> st, host |-> H_web1,
      file |-> <<"/", "a">>, type |-> <<"c">>] :
        t \in {1, 2}, st \in {S_OK, S_DRIFT, S_FIXED}}
    \cup
    {[shape |-> "record", t |-> 2, status |-> st, host |-> H_db1,
      file |-> <<"/", "b">>, type |-> S_vault_error] :
        st \in {S_OK, S_DRIFT, S_FIXED}}
    \cup
    {[shape |-> "record", t |-> 2, status |-> S_WARN, host |-> H_web1,
      file |-> <<"/", "a">>, type |-> <<"c">>]}

\* Lines that are no record: text without a bracket, a timestamp that does
\* not parse, a timestamp alone; and a record without its detail section.
OtherLines ==
    {[shape |-> sh, t |-> 2, status |-> S_DRIFT, host |-> H_web1,
      file |-> <<"/", "a">>, type |-> <<"c">>] :
        sh \in {"text", "bad_time", "time_only", "no_details"}}

LineDescs == FormatLines \cup OtherLines

LineText(d) ==
    CASE d.shape = "record"     -> RecordLine(d.t, d.status, d.host, d.file, d.type)
      [] d.shape = "text"       -> <<"P", "L", "A", "Y">> \o <<" ">> \o d.host
      [] d.shape = "bad_time"   ->
            <<"[", "x", "]", " ", "[">> \o d.status \o <<"]", " ">> \o S_Host \o d.host
      [] d.shape = "time_only"  -> <<"[">> \o Stamp(d.t) \o <<"]">>
      [] d.shape = "no_details" ->
            <<" ", "[">> \o Stamp(d.t) \o <<"]", " ", "[">> \o d.status \o <<"]", "\n">>

LogLines == {LineText(d) : d \in LineDescs}

-----------------------------------------------------------------------------
(* The call of parse_audit_log.                                            *)

HistoryIdle ==
    /\ start_time = 0
    /\ log_lines = <<>>
    /\ host_report = <<>>
    /\ history_out = <<>>
    /\ history_pc = "idle"

\* parse_audit_log touches nothing of parse_ansible_json.
HistoryFrame == UNCHANGED <<reportVars, vaultVars, mainVars>>

\* os.path.exists(AUDIT_LOG_FILE) is false: the call returns at once.
NoLogFile ==
    /\ history_pc = "idle"
    /\ history_pc' = "done"
    /\ UNCHANGED <<start_time, log_lines, host_report, history_out>>
    /\ HistoryFrame

\* The log exists: the header is printed and the file is opened.
OpenLog ==
    /\ history_pc = "idle"
    /\ \E t \in StartTimes : start_time' = t
    /\ history_out' = <<HistHeaderLine>>
    /\ history_pc' = "reading"
    /\ UNCHANGED <<log_lines, host_report>>
    /\ HistoryFrame

\* One iteration of "for line in f".
ReadLine ==
    /\ history_pc = "reading"
    /\ Len(log_lines) < MaxLines
    /\ \E raw \in LogLines :
        /\ log_lines' = Append(log_lines, raw)
        /\ host_report' = ApplyLine(host_report, raw, start_time)
    /\ UNCHANGED <<start_time, history_out, history_pc>>
    /\ HistoryFrame

\* open or the iteration raises: the error is printed and the call returns
\* without rendering.
LogError ==
    /\ history_pc = "reading"
    /\ history_out' = Append(history_out, HistErrorLine)
    /\ history_pc' = "done"
    /\ UNCHANGED <<start_time, log_lines, host_report>>
    /\ HistoryFrame

\* The end of the file: the summary is rendered.
EndOfLog ==
    /\ history_pc = "reading"
    /\ history_out' = history_out \o Render(host_report)
    /\ history_pc' = "done"
    /\ UNCHANGED <<start_time, log_lines, host_report>>
    /\ HistoryFrame


-----------------------------------------------------------------------------
(* Properties of the History Reducer (SpecHistory).                        *)

\* What a line of the log is, by the format of the log.
DescOf(raw) == CHOOSE d \in LineDescs : LineText(d) = raw

\* The line carries a timestamp that parses.
HasTime(d) == d.shape \in {"record", "time_only", "no_details"}

\* The line is a record of the format: a timestamp, a status among OK, DRIFT
\* and FIXED, and the detail section or none of it (the host is then Unknown).
IsRecord(d) ==
    d.shape \in {"record", "no_details"} /\ d.status \in {S_OK, S_DRIFT, S_FIXED}

RecordHost(d) == IF d.shape = "record" THEN d.host ELSE S_Unknown
RecordFile(d) == IF d.shape = "record" THEN d.file ELSE S_Unknown
RecordType(d) == IF d.shape = "record" THEN d.type ELSE S_Unknown

\* The records of the log that are at or after the cutoff, in file order.
Considered ==
    LET ds == [i \in 1..Len(log_lines) |-> DescOf(log_lines[i])]
    IN  SelectSeq(ds, LAMBDA d : IsRecord(d) /\ d.t >= start_time)

\* The statuses of the considered records of a host, in file order.
StatusesOf(h) ==
    LET rs == SelectSeq(Considered, LAMBDA d : RecordHost(d) = h)
    IN  [i \in 1..Len(rs) |-> rs[i].status]

\* The items of host_report, and the running state of a host.
Entries == {host_report[i] : i \in 1..Len(host_report)}
EntryOf(report, h) == report[IndexOf(report, h)]

\* A step of the for loop, and the line it reads.
ReadStep == history_pc = "reading" /\ Len(log_lines') = Len(log_lines) + 1
LineRead == DescOf(log_lines'[Len(log_lines')])

\* The call has returned after rendering the summary.
Rendered ==
    history_pc = "done" /\ history_out = <<HistHeaderLine>> \o Render(host_report)

\* The state printed for a host.
PrintedLabels(h) ==
    LET ls == SelectSeq(history_out, LAMBDA l : l.kind = "status" /\ l.host = h)
    IN  [i \in 1..Len(ls) |-> ls[i].label]

\* host_report after the whole of a log.
RECURSIVE Reduction(_, _, _)
Reduction(report, lines, start) ==
    IF lines = <<>> THEN report
    ELSE Reduction(ApplyLine(report, Head(lines), start), Tail(lines), start)

\* The running state of a host after the first k lines read; a host is
\* COMPLIANT on first sight.
StateAfter(k, h) ==
    LET rep == Reduction(<<>>, SubSeq(log_lines, 1, k), start_time)
    IN  IF HasHost(rep, h) THEN EntryOf(rep, h).status ELSE "OK"

\* The strict orders of the three states, lowest first.
PrecedenceOrders ==
    {<<"OK", "DRIFT", "FIXED">>, <<"OK", "FIXED", "DRIFT">>,
     <<"DRIFT", "OK", "FIXED">>, <<"DRIFT", "FIXED", "OK">>,
     <<"FIXED", "OK", "DRIFT">>, <<"FIXED", "DRIFT", "OK">>}

Rank(ord, st) == CHOOSE i \in 1..3 : ord[i] = st

\* C6 as stated: there is one strict precedence order of the three states
\* under which no record read so far has moved a host to a lower state.
C6_StrictPrecedence ==
    \E ord \in PrecedenceOrders :
        \A k \in 1..Len(log_lines) : \A e \in Entries :
            Rank(ord, StateAfter(k, e.host)) >= Rank(ord, StateAfter(k - 1, e.host))

\* C6 amended: a record never moves a host from DRIFTED or FIXED back to
\* COMPLIANT, and between DRIFTED and FIXED the record read last decides: a
\* considered DRIFT record leaves its host DRIFTED and a considered FIXED
\* record leaves it FIXED, whatever the state before.
C6_CompliantLowestLastWins ==
    [][ReadStep =>
        /\ \A i \in 1..Len(host_report) :
              host_report[i].status \in {"DRIFT", "FIXED"} =>
                  host_report'[i].status \in {"DRIFT", "FIXED"}
        /\ (IsRecord(LineRead) /\ LineRead.t >= start_time
            /\ LineRead.status \in {S_DRIFT, S_FIXED}) =>
              /\ HasHost(host_report', RecordHost(LineRead))
              /\ EntryOf(host_report', RecordHost(LineRead)).status =
                    (IF LineRead.status = S_DRIFT THEN "DRIFT" ELSE "FIXED")
       ]_vars

\* A host that went from DRIFTED to FIXED and from FIXED to DRIFTED.
C6_Witness ==
    \E e \in Entries :
        /\ e.status = "DRIFT"
        /\ StatusesOf(e.host) = <<S_DRIFT, S_FIXED, S_DRIFT>>

\* C7: an OK record changes the state of no host that is DRIFTED or FIXED; a
\* host whose considered records are OK, DRIFT and then only OK is DRIFTED,
\* and is printed so at the end; a host is COMPLIANT only if none of its
\* considered records is DRIFT or FIXED.
C7_OkNeverDowngrades ==
    /\ [](\A e \in Entries :
            LET sts == StatusesOf(e.host)
            IN  /\ (Len(sts) >= 2 /\ sts[1] = S_OK /\ sts[2] = S_DRIFT
                    /\ \A i \in 3..Len(sts) : sts[i] = S_OK) =>
                       /\ e.status = "DRIFT"
                       /\ Rendered => PrintedLabels(e.host) = <<"DRIFT DETECTED">>
                /\ e.status = "OK" =>
                       \A i \in 1..Len(sts) : sts[i] \notin {S_DRIFT, S_FIXED})
    /\ [][(ReadStep /\ IsRecord(LineRead) /\ LineRead.status = S_OK) =>
            \A i \in 1..Len(host_report) :
                host_report[i].status \in {"DRIFT", "FIXED"} =>
                    host_report'[i] = host_report[i]
         ]_vars

\* The summary is rendered for a host whose considered records are OK, DRIFT, OK.
C7_Witness ==
    /\ Rendered
    /\ \E e \in Entries :
        /\ StatusesOf(e.host) = <<S_OK, S_DRIFT, S_OK>>
        /\ PrintedLabels(e.host) = <<"DRIFT DETECTED">>

\* The message a considered DRIFT or FIXED record adds to its host.
MessageOf(d) ==
    IF d.status = S_DRIFT THEN DriftMsg(RecordFile(d), RecordType(d))
    ELSE FixedMsg(RecordFile(d))

\* The line has a timestamp earlier than the cutoff.
Earlier(raw) == HasTime(DescOf(raw)) /\ DescOf(raw).t < start_time

C9_UnmatchedIgnored ==
    [][(ReadStep /\ ~IsRecord(LineRead)) => host_report' = host_report]_vars


-----------------------------------------------------------------------------
(* setup_vault_password and the environment of the external process, for   *)
(* two runs of the wrapper that are given the same command line and the    *)
(* same temporary file name and differ only in the vault password.         *)
(* An optional value is <<>> for None and <<v>> for the value v.           *)

Runs == {1, 2}

\* Python truthiness of an optional string.
Truthy(opt) == opt # <<>> /\ opt[1] # ""

\* args.vault_pass as argparse leaves it: None without the option, the const
\* '__PROMPT__' for the bare option, the value otherwise.
vault_pass_arg(how, value) ==
    CASE how = "none"   -> <<>>
      [] how = "prompt" -> <<"__PROMPT__">>
      [] how = "value"  -> <<value>>

\* The two f.write calls of setup_vault_password.
SCRIPT_TEXT == <<"#!/bin/sh\n", "echo \"$SENTINEL_VAULT_PASS\"\n">>

\* Mutation of setup_vault_password: the script echoes the password itself.
setup_vault_password_inline(arg, cmd_list, fs, at, typed, tmp) ==
    LET value == IF arg = <<"__PROMPT__">> THEN <<typed>> ELSE arg
    IN  IF ~Truthy(arg)
        THEN [value |-> <<>>, cmd |-> cmd_list, files |-> fs, atexit |-> at]
        ELSE [value  |-> value,
              cmd    |-> cmd_list \o <<"--vault-password-file", tmp>>,
              files  |-> fs \cup {[path |-> tmp,
                                   contents |-> <<"#!/bin/sh\n", "echo ", value[1]>>,
                                   mode |-> 448]},
              atexit |-> at \cup {tmp}]

\* setup_vault_password(vault_pass_arg, cmd_list), with the file system fs,
\* the registered exit functions at, the password typed at the getpass prompt
\* and the name mkstemp returns: the value returned, and cmd_list, the file
\* system and the exit functions afterwards.
setup_vault_password(arg, cmd_list, fs, at, typed, tmp) ==
    LET value == IF arg = <<"__PROMPT__">> THEN <<typed>> ELSE arg
    IN  IF ~Truthy(arg)
        THEN [value |-> <<>>, cmd |-> cmd_list, files |-> fs, atexit |-> at]
        ELSE [value  |-> value,
              cmd    |-> cmd_list \o <<"--vault-password-file", tmp>>,
              files  |-> fs \cup {[path |-> tmp, contents |-> SCRIPT_TEXT, mode |-> 448]},
              atexit |-> at \cup {tmp}]

\* os.environ.copy(), and SENTINEL_VAULT_PASS added when the value is truthy.
BaseEnv == {<<"PATH", "/usr/bin">>}

vault_env(value) ==
    IF Truthy(value) THEN BaseEnv \cup {<<"SENTINEL_VAULT_PASS", value[1]>>}
    ELSE BaseEnv

\* os.path.exists(path)
path_exists(fs, path) == \E f \in fs : f.path = path

\* os.remove(path): the file is gone; FileNotFoundError when there is none.
os_remove(fs, path) ==
    [files  |-> {f \in fs : f.path # path},
     raised |-> ~path_exists(fs, path)]

\* Mutation of cleanup_vault_file: the file is removed without the test.
cleanup_vault_file_unguarded(fs, path) == os_remove(fs, path)

\* cleanup_vault_file, the closure registered for vault_pass_file = path: the
\* file system after the call and whether the call raised.
cleanup_vault_file(fs, path) ==
    IF path # "" /\ path_exists(fs, path)
    THEN os_remove(fs, path)
    ELSE [files |-> fs, raised |-> FALSE]

\* What the interpreter does with the functions registered by atexit when it
\* shuts down: each is called once; an exception of one is reported and the
\* others still run.
RECURSIVE run_exitfuncs(_, _)
run_exitfuncs(fs, at) ==
    IF at = {} THEN [files |-> fs, raised |-> FALSE]
    ELSE LET path == CHOOSE x \in at : TRUE
             one  == cleanup_vault_file(fs, path)
             rest == run_exitfuncs(one.files, at \ {path})
         IN  [files |-> rest.files, raised |-> one.raised \/ rest.raised]

\* The command before setup_vault_password: the playbook and the inventory.
BaseCmd == <<"ansible-playbook", PLAYBOOK_FILE, "-i", "inventory.yml">>

Secrets == {"", "hunter2", "s3cret"}
TmpFiles == {"/tmp/tmpab12.sh", "/tmp/tmpcd34.sh"}

VaultStart ==
    /\ vault_pass \in {"none", "value", "prompt"}
    /\ tmp_file \in TmpFiles
    /\ secret \in [Runs -> Secrets]
    /\ files = [r \in Runs |-> {}]
    /\ cmd = [r \in Runs |-> BaseCmd]
    /\ vault_value = [r \in Runs |-> <<>>]
    /\ atexit_funcs = [r \in Runs |-> {}]
    /\ env = [r \in Runs |-> {}]
    /\ ext_proc = [r \in Runs |-> <<>>]
    /\ vault_pc = [r \in Runs |-> "start"]
    /\ cleanup_calls = [r \in Runs |-> 0]
    /\ cleanup_raised = [r \in Runs |-> FALSE]

\* The vault part of main touches nothing of the two reducers.
VaultFrame == UNCHANGED <<reportVars, historyVars, mainVars>>

\* main, step 3: vault_password_value = setup_vault_password(args.vault_pass, cmd)
SetupVault(r) ==
    /\ vault_pc[r] = "start"
    /\ LET res == setup_vault_password(vault_pass_arg(vault_pass, secret[r]),
                                       cmd[r], files[r], atexit_funcs[r],
                                       secret[r], tmp_file)
       IN  /\ vault_value' = [vault_value EXCEPT ![r] = res.value]
           /\ cmd' = [cmd EXCEPT ![r] = res.cmd]
           /\ files' = [files EXCEPT ![r] = res.files]
           /\ atexit_funcs' = [atexit_funcs EXCEPT ![r] = res.atexit]
    /\ vault_pc' = [vault_pc EXCEPT ![r] = "setup"]
    /\ UNCHANGED <<vault_pass, tmp_file, secret, env, ext_proc,
                   cleanup_calls, cleanup_raised>>
    /\ VaultFrame

\* main, step 4: the environment of the external process.
PrepareEnv(r) ==
    /\ vault_pc[r] = "setup"
    /\ env' = [env EXCEPT ![r] = vault_env(vault_value[r])]
    /\ vault_pc' = [vault_pc EXCEPT ![r] = "env"]
    /\ UNCHANGED <<vault_pass, tmp_file, secret, files, cmd, vault_value,
                   atexit_funcs, ext_proc, cleanup_calls, cleanup_raised>>
    /\ VaultFrame

\* main, step 5: subprocess.run(cmd, env=env).
RunExternal(r) ==
    /\ vault_pc[r] = "env"
    /\ ext_proc' = [ext_proc EXCEPT ![r] = <<[argv |-> cmd[r], env |-> env[r]]>>]
    /\ vault_pc' = [vault_pc EXCEPT ![r] = "run"]
    /\ UNCHANGED <<vault_pass, tmp_file, secret, files, cmd, vault_value,
                   atexit_funcs, env, cleanup_calls, cleanup_raised>>
    /\ VaultFrame

\* How often cleanup_vault_file is called at most.
MaxCleanups == 3

\* The process of a run ends and the interpreter calls the registered exit
\* functions.
Teardown(r) ==
    /\ vault_pc[r] = "run"
    /\ LET res == run_exitfuncs(files[r], atexit_funcs[r])
       IN  /\ files' = [files EXCEPT ![r] = res.files]
           /\ cleanup_raised' = [cleanup_raised EXCEPT ![r] = @ \/ res.raised]
    /\ cleanup_calls' = [cleanup_calls EXCEPT ![r] = @ + Cardinality(atexit_funcs[r])]
    /\ vault_pc' = [vault_pc EXCEPT ![r] = "ended"]
    /\ UNCHANGED <<vault_pass, tmp_file, secret, cmd, vault_value,
                   atexit_funcs, env, ext_proc>>
    /\ VaultFrame

\* cleanup_vault_file is called once more, after the exit functions ran.
CleanupAgain(r) ==
    /\ vault_pc[r] = "ended"
    /\ cleanup_calls[r] < MaxCleanups
    /\ \E path \in atexit_funcs[r] :
          LET res == cleanup_vault_file(files[r], path)
          IN  /\ files' = [files EXCEPT ![r] = res.files]
              /\ cleanup_raised' = [cleanup_raised EXCEPT ![r] = @ \/ res.raised]
    /\ cleanup_calls' = [cleanup_calls EXCEPT ![r] = @ + 1]
    /\ UNCHANGED <<vault_pass, tmp_file, secret, cmd, vault_value,
                   atexit_funcs, env, ext_proc, vault_pc>>
    /\ VaultFrame

\* Before main reaches its vault part.
VaultIdle ==
    /\ vault_pass = "none"
    /\ tmp_file = "/tmp/tmpab12.sh"
    /\ secret = [r \in Runs |-> ""]
    /\ files = [r \in Runs |-> {}]
    /\ cmd = [r \in Runs |-> BaseCmd]
    /\ vault_value = [r \in Runs |-> <<>>]
    /\ atexit_funcs = [r \in Runs |-> {}]
    /\ env = [r \in Runs |-> {}]
    /\ ext_proc = [r \in Runs |-> <<>>]
    /\ vault_pc = [r \in Runs |-> "start"]
    /\ cleanup_calls = [r \in Runs |-> 0]
    /\ cleanup_raised = [r \in Runs |-> FALSE]

-----------------------------------------------------------------------------
(* Properties of the secret relay (SpecVault).                             *)

\* The strings written into the files of a run, and those of its command.
WrittenText(r) == UNION {Range(f.contents) : f \in files[r]}
ArgvOf(r) == IF ext_proc[r] = <<>> THEN {} ELSE Range(ext_proc[r][1].argv)
EnvOf(r) == IF ext_proc[r] = <<>> THEN {} ELSE ext_proc[r][1].env

\* The password a run holds: given on the command line or typed.
PasswordOf(r) == IF vault_pass = "none" THEN "" ELSE secret[r]

\* C10: what the wrapper writes does not depend on the secret: the files of
\* two runs that both wrote a script are the same, none holds the secret, the
\* command lines of the two external processes are the same and hold no
\* secret, and their environments differ at most in SENTINEL_VAULT_PASS,
\* which holds the secret of the run.
C10_SecretOnlyInEnv ==
    /\ \A r \in Runs, q \in Runs :
          /\ (files[r] # {} /\ files[q] # {}) => files[r] = files[q]
          /\ (ext_proc[r] # <<>> /\ ext_proc[q] # <<>>
              /\ (PasswordOf(r) = "" <=> PasswordOf(q) = "")) =>
                 /\ ext_proc[r][1].argv = ext_proc[q][1].argv
                 /\ {e \in EnvOf(r) : e[1] # "SENTINEL_VAULT_PASS"}
                      = {e \in EnvOf(q) : e[1] # "SENTINEL_VAULT_PASS"}
    /\ \A r \in Runs :
          /\ PasswordOf(r) # "" =>
                /\ PasswordOf(r) \notin WrittenText(r)
                /\ PasswordOf(r) \notin ArgvOf(r)
                /\ \A e \in EnvOf(r) :
                      e[2] = PasswordOf(r) => e[1] = "SENTINEL_VAULT_PASS"
          /\ (ext_proc[r] # <<>> /\ files[r] # {} /\ PasswordOf(r) # "") =>
                <<"SENTINEL_VAULT_PASS", PasswordOf(r)>> \in EnvOf(r)

\* Two runs with different secrets have both written the script and run the
\* external process.
C10_Witness ==
    /\ secret[1] # secret[2] /\ secret[1] # "" /\ secret[2] # ""
    /\ \A r \in Runs :
          /\ vault_pc[r] = "run"
          /\ files[r] # {}
          /\ <<"SENTINEL_VAULT_PASS", secret[r]>> \in EnvOf(r)

\* A step that calls cleanup_vault_file for run r.
CleanupStep(r) == cleanup_calls'[r] > cleanup_calls[r]

\* C12: cleanup_vault_file is idempotent: no call of it raises, once it has
\* been called the script is absent, and a call after the first leaves the
\* file system as the first call left it.
C12_CleanupIdempotent ==
    /\ [](\A r \in Runs :
            /\ ~cleanup_raised[r]
            /\ cleanup_calls[r] >= 1 =>
                  \A path \in atexit_funcs[r] : ~path_exists(files[r], path))
    /\ [][\A r \in Runs :
            (CleanupStep(r) /\ cleanup_calls[r] >= 1) => files'[r] = files[r]]_vars

\* The script was written, and cleanup_vault_file has been called three
\* times: by the interpreter at exit and twice after the script was gone.
C12_Witness ==
    \E r \in Runs :
        /\ atexit_funcs[r] # {}
        /\ vault_pc[r] = "ended"
        /\ cleanup_calls[r] >= 3
        /\ files[r] = {}

-----------------------------------------------------------------------------
(* main, for run 1: the safety checks, the command, the vault password,    *)
(* the two execution modes with the spinner, the summary and the way the   *)
(* process ends.                                                           *)

\* A write to the terminal: who wrote it, what it is, and for a summary the
\* lines of the reducer.
Entry(by, kind) == [by |-> by, kind |-> kind, body |-> <<>>]
Summary(kind, lines) == [by |-> "main", kind |-> kind, body |-> lines]

YES == <<"y", "e", "s">>

\* Mutation of perform_safety_checks: any answer that is not empty confirms
\* the auto-fix.
perform_safety_checks_any_answer(a, vault, resp) ==
    LET ask1   == Truthy(a.auto_fix) /\ a.auto_fix[1] # "yes"
        abort1 == ask1 /\ Strip(resp.auto_fix) = <<>>
        warn2  == Truthy(a.report) /\ vault
        ask2   == warn2 /\ a.report[1] # "yes"
        abort2 == ask2 /\ Strip(resp.report) # YES
        out1   == (IF Truthy(a.auto_fix) THEN <<Entry("main", "danger")>> ELSE <<>>)
                  \o (IF ask1 THEN <<Entry("main", "prompt_auto_fix")>> ELSE <<>>)
                  \o (IF abort1 THEN <<Entry("main", "aborted")>> ELSE <<>>)
        out2   == (IF warn2 THEN <<Entry("main", "leak_warning")>> ELSE <<>>)
                  \o (IF ask2 THEN <<Entry("main", "prompt_report")>> ELSE <<>>)
                  \o (IF abort2 THEN <<Entry("main", "aborted")>> ELSE <<>>)
    IN  IF abort1 THEN [exit |-> TRUE, out |-> out1]
        ELSE [exit |-> abort2, out |-> out1 \o out2]

\* perform_safety_checks(args), with vault whether args.vault_pass is truthy
\* and resp what the operator types at the prompts: whether sys.exit(1) was
\* called, and what was printed.
perform_safety_checks(a, vault, resp) ==
    LET ask1   == Truthy(a.auto_fix) /\ a.auto_fix[1] # "yes"
        abort1 == ask1 /\ Strip(resp.auto_fix) # YES
        warn2  == Truthy(a.report) /\ vault
        ask2   == warn2 /\ a.report[1] # "yes"
        abort2 == ask2 /\ Strip(resp.report) # YES
        out1   == (IF Truthy(a.auto_fix) THEN <<Entry("main", "danger")>> ELSE <<>>)
                  \o (IF ask1 THEN <<Entry("main", "prompt_auto_fix")>> ELSE <<>>)
                  \o (IF abort1 THEN <<Entry("main", "aborted")>> ELSE <<>>)
        out2   == (IF warn2 THEN <<Entry("main", "leak_warning")>> ELSE <<>>)
                  \o (IF ask2 THEN <<Entry("main", "prompt_report")>> ELSE <<>>)
                  \o (IF abort2 THEN <<Entry("main", "aborted")>> ELSE <<>>)
    IN  IF abort1 THEN [exit |-> TRUE, out |-> out1]
        ELSE [exit |-> abort2, out |-> out1 \o out2]

\* extra_vars as main collects them.
extra_vars(a) ==
    (IF Truthy(a.auto_fix) THEN <<"auto_fix=true">>
     ELSE IF a.ask_fix THEN <<"ask_fix=true">> ELSE <<>>)
    \o (IF Truthy(a.report) THEN <<"generate_report=true">> ELSE <<>>)

\* " ".join(extra_vars), for the one or two entries there are.
JoinVars(ev) == IF Len(ev) = 1 THEN ev[1] ELSE ev[1] \o " " \o ev[2]

\* cmd as main builds it before the vault password is set up.
build_cmd(a) ==
    <<"ansible-playbook", PLAYBOOK_FILE, "-i", a.inventory>>
    \o (IF extra_vars(a) # <<>> THEN <<"-e", JoinVars(extra_vars(a))>> ELSE <<>>)

\* env[key] = value
SetEnv(e, key, value) == {x \in e : x[1] # key} \cup {<<key, value>>}

\* The environment of the interactive mode: the four settings unless verbose.
interactive_env(e, a) ==
    IF a.verbose THEN e
    ELSE SetEnv(SetEnv(SetEnv(SetEnv(e,
            "ANSIBLE_DISPLAY_SKIPPED_HOSTS", "no"),
            "ANSIBLE_DISPLAY_OK_HOSTS", "no"),
            "ANSIBLE_STDOUT_CALLBACK", "yaml"),
            "ANSIBLE_RETRY_FILES_ENABLED", "0")

\* The environment of the quiet mode.
quiet_env(e) ==
    SetEnv(SetEnv(e, "ANSIBLE_STDOUT_CALLBACK", "json"),
           "ANSIBLE_LOAD_CALLBACK_PLUGINS", "1")

\* is_interactive or args.verbose
interactive_mode(a) == a.ask_fix \/ a.verbose

\* Everything parse_audit_log prints for a log and a cutoff: nothing without
\* the file, the header and the error when reading raises, else the header
\* and the rendered summary.
parse_audit_log(log, start) ==
    IF ~log.exists THEN <<>>
    ELSE IF ~log.readable THEN <<HistHeaderLine, HistErrorLine>>
    ELSE <<HistHeaderLine>> \o Render(Reduction(<<>>, log.lines, start))

\* result.returncode != 0 and not result.stdout.strip().startswith("{")
fatal_without_json(res) ==
    res.returncode # 0 /\ ~StartsWith(Strip(res.stdout.head), <<"{">>)

-----------------------------------------------------------------------------
(* The inputs of main.                                                     *)

\* --auto-fix: absent, given an empty value, bare (the const 'prompt'), yes,
\* or another value.
AutoFixArgs == {<<>>, <<"">>, <<"prompt">>, <<"yes">>, <<"no">>}

\* --report: absent, bare, or yes.
ReportArgs == {<<>>, <<"prompt">>, <<"yes">>}

\* What the operator types at a prompt: yes, yes within white space, YES, no,
\* nothing.
Answers == { YES,
             <<" ", "y", "e", "s", "\t">>,
             <<"Y", "E", "S">>,
             <<"n", "o">>,
             <<>> }

\* The exit codes of the external process.
ReturnCodes == {0, 1, 2}

\* JSON text that is no object, such as "[]".
NotAnObject == [valid |-> TRUE, dict |-> FALSE, stats |-> <<>>, plays |-> <<>>]

Web1Stats == <<[host |-> "web1", unreachable |-> 0, failures |-> 0]>>

\* One play with one task "Display Diff" that holds a result for host h.
DiffPlay(h) ==
    <<<<[name |-> "Display Diff", hosts |-> <<Result(h, FALSE, <<"/", "a">>)>>]>>>>

\* What the external process wrote to its standard output: head is the text
\* up to its first character that is no white space, json the text as
\* json.loads sees it.  "", "ERROR", "{" broken off, "[]", an object after a
\* line break, an object with a drift of web1, and an object whose task
\* names the host db1 that stats does not hold.
Stdouts ==
    { [head |-> <<>>,          json |-> InvalidPayload],
      [head |-> <<"E">>,       json |-> InvalidPayload],
      [head |-> <<"{">>,       json |-> InvalidPayload],
      [head |-> <<"[">>,       json |-> NotAnObject],
      [head |-> <<"\n", "{">>, json |-> Payload(Web1Stats, <<>>)],
      [head |-> <<"{">>,       json |-> Payload(Web1Stats, DiffPlay("web1"))],
      [head |-> <<"{">>,       json |-> Payload(Web1Stats, DiffPlay("db1"))] }

\* The output is not captured in the interactive mode.
NoStdout == [head |-> <<>>, json |-> InvalidPayload]

\* audit_history.log: absent, unreadable, or one DRIFT record of web1.
AuditLogs ==
    { [exists |-> FALSE, readable |-> FALSE, lines |-> <<>>],
      [exists |-> TRUE,  readable |-> FALSE, lines |-> <<>>],
      [exists |-> TRUE,  readable |-> TRUE,
       lines |-> <<RecordLine(2, S_DRIFT, H_web1, <<"/", "a">>, <<"c">>)>>] }

\* datetime.now() when main captures start_time.
now == 2

\* How many frames the spinner writes at most.
MaxFrames == 2

-----------------------------------------------------------------------------
(* The steps of main.                                                      *)

\* The run of the wrapper that main is followed for.
Me == 1

\* Before main starts.
MainIdle ==
    /\ args = [auto_fix |-> <<>>, ask_fix |-> FALSE, report |-> <<>>,
               verbose |-> FALSE, inventory |-> "inventory.yml"]
    /\ response = [auto_fix |-> <<>>, report |-> <<>>]
    /\ main_pc = "checks"
    /\ terminal = <<>>
    /\ stop_running = FALSE
    /\ thread = "none"
    /\ stop_pc = "idle"
    /\ result = <<>>
    /\ exit_status = <<>>
    /\ audit_log = [exists |-> FALSE, readable |-> FALSE, lines |-> <<>>]
    /\ called = <<>>

\* parser.parse_args() has returned.
MainStart ==
    /\ args \in [auto_fix : AutoFixArgs, ask_fix : BOOLEAN, report : ReportArgs,
                 verbose : BOOLEAN, inventory : {"inventory.yml"}]
    /\ response = [auto_fix |-> <<>>, report |-> <<>>]
    /\ main_pc = "checks"
    /\ terminal = <<>>
    /\ stop_running = FALSE
    /\ thread = "none"
    /\ stop_pc = "idle"
    /\ result = <<>>
    /\ exit_status = <<>>
    /\ audit_log = [exists |-> FALSE, readable |-> FALSE, lines |-> <<>>]
    /\ called = <<>>

\* What main never assigns.
MainFrame ==
    UNCHANGED <<reportVars, historyVars, vault_pass, tmp_file, secret, vault_pc,
                cleanup_calls, cleanup_raised, args>>

\* The interpreter shuts down (main returned, sys.exit, or an exception that
\* nothing caught): the registered exit functions run and the process ends.
Shutdown(code, sig) ==
    /\ exit_status' = <<[code |-> code, signal |-> sig]>>
    /\ files' = [files EXCEPT ![Me] = run_exitfuncs(@, atexit_funcs[Me]).files]
    /\ main_pc' = "ended"

\* main goes on at pc.
Goto(pc) == main_pc' = pc /\ UNCHANGED <<exit_status, files>>

\* 1. perform_safety_checks(args): sys.exit(1) when a confirmation is refused.
SafetyChecks ==
    /\ main_pc = "checks"
    /\ \E r1 \in Answers, r2 \in Answers :
        LET vault == Truthy(vault_pass_arg(vault_pass, secret[Me]))
            res   == perform_safety_checks(args, vault,
                                           [auto_fix |-> r1, report |-> r2])
            asked(kind) == \E i \in 1..Len(res.out) : res.out[i].kind = kind
        IN  /\ response' = [auto_fix |-> IF asked("prompt_auto_fix") THEN r1 ELSE <<>>,
                            report   |-> IF asked("prompt_report") THEN r2 ELSE <<>>]
            /\ terminal' = terminal \o res.out
            /\ IF res.exit THEN Shutdown(1, "") ELSE Goto("build")
    /\ called' = Append(called, "perform_safety_checks")
    /\ UNCHANGED <<stop_running, thread, stop_pc, result, audit_log,
                   cmd, vault_value, atexit_funcs, env, ext_proc>>
    /\ MainFrame

\* 2. The command and its extra variables.
BuildCommand ==
    /\ main_pc = "build"
    /\ cmd' = [cmd EXCEPT ![Me] = build_cmd(args)]
    /\ Goto("vault")
    /\ UNCHANGED <<response, terminal, stop_running, thread, stop_pc, result,
                   audit_log, called, vault_value, atexit_funcs, env, ext_proc>>
    /\ MainFrame

\* 3. vault_password_value = setup_vault_password(args.vault_pass, cmd)
MainSetupVault ==
    /\ main_pc = "vault"
    /\ LET res == setup_vault_password(vault_pass_arg(vault_pass, secret[Me]),
                                       cmd[Me], files[Me], atexit_funcs[Me],
                                       secret[Me], tmp_file)
       IN  /\ vault_value' = [vault_value EXCEPT ![Me] = res.value]
           /\ cmd' = [cmd EXCEPT ![Me] = res.cmd]
           /\ files' = [files EXCEPT ![Me] = res.files]
           /\ atexit_funcs' = [atexit_funcs EXCEPT ![Me] = res.atexit]
    /\ terminal' = IF vault_pass = "prompt"
                   THEN Append(terminal, Entry("main", "prompt_vault"))
                   ELSE terminal
    /\ called' = Append(called, "setup_vault_password")
    /\ main_pc' = "env"
    /\ UNCHANGED <<response, stop_running, thread, stop_pc, result, exit_status,
                   audit_log, env, ext_proc>>
    /\ MainFrame

\* 4. env = os.environ.copy(), with SENTINEL_VAULT_PASS when there is a value.
MainPrepareEnv ==
    /\ main_pc = "env"
    /\ env' = [env EXCEPT ![Me] = vault_env(vault_value[Me])]
    /\ Goto("mode")
    /\ UNCHANGED <<response, terminal, stop_running, thread, stop_pc, result,
                   audit_log, called, cmd, vault_value, atexit_funcs, ext_proc>>
    /\ MainFrame

\* 5. The interactive mode: the launch line, the settings of the engine, and
\* subprocess.run(cmd, check=True, env=env) is entered.
LaunchInteractive ==
    /\ main_pc = "mode"
    /\ interactive_mode(args)
    /\ terminal' = Append(terminal, Entry("main", "launching"))
    /\ env' = [env EXCEPT ![Me] = interactive_env(@, args)]
    /\ ext_proc' = [ext_proc EXCEPT ![Me] = <<[argv |-> cmd[Me], env |-> env'[Me]]>>]
    /\ called' = Append(called, "subprocess.run")
    /\ Goto("interactive_run")
    /\ UNCHANGED <<response, stop_running, thread, stop_pc, result, audit_log,
                   cmd, vault_value, atexit_funcs>>
    /\ MainFrame

\* The external process ends; it wrote to the terminal itself.  A code other
\* than 0 raises CalledProcessError, which main reports.
InteractiveCompleted ==
    /\ main_pc = "interactive_run"
    /\ \E rc \in ReturnCodes :
        /\ result' = <<[raised |-> IF rc # 0 THEN "CalledProcessError" ELSE "",
                        returncode |-> rc, stdout |-> NoStdout]>>
        /\ terminal' = terminal \o <<Entry("ansible", "output")>>
                       \o (IF rc # 0 THEN <<Entry("main", "failed_code")>> ELSE <<>>)
    /\ Goto("summary")
    /\ UNCHANGED <<response, stop_running, thread, stop_pc, audit_log, called,
                   cmd, vault_value, atexit_funcs, env, ext_proc>>
    /\ MainFrame

\* parse_audit_log(start_time), then sys.exit(e.returncode) or the end of main.
InteractiveSummary ==
    /\ main_pc = "summary"
    /\ \E log \in AuditLogs :
        /\ audit_log' = log
        /\ terminal' = IF parse_audit_log(log, now) = <<>> THEN terminal
                       ELSE Append(terminal, Summary("history", parse_audit_log(log, now)))
    /\ called' = Append(called, "parse_audit_log")
    /\ Shutdown(result[1].returncode, "")
    /\ UNCHANGED <<response, stop_running, thread, stop_pc, result,
                   cmd, vault_value, atexit_funcs, env, ext_proc>>
    /\ MainFrame

\* The outcomes of a KeyboardInterrupt that nothing catches: the interpreter
\* ends with code 1, or kills itself with SIGINT (the shell then shows 130).
UncaughtInterrupt == {[code |-> 1, signal |-> ""], [code |-> 130, signal |-> "SIGINT"]}

\* The operator interrupts the interactive run: subprocess.run raises
\* KeyboardInterrupt, the try statement has no handler for it, and the
\* interpreter prints the traceback and shuts down.
InteractiveInterrupted ==
    /\ main_pc = "interactive_run"
    /\ result' = <<[raised |-> "KeyboardInterrupt", returncode |-> 0,
                    stdout |-> NoStdout]>>
    /\ terminal' = Append(terminal, Entry("interpreter", "traceback"))
    /\ \E how \in UncaughtInterrupt : Shutdown(how.code, how.signal)
    /\ UNCHANGED <<response, stop_running, thread, stop_pc, audit_log, called,
                   cmd, vault_value, atexit_funcs, env, ext_proc>>
    /\ MainFrame

\* The number of frames on the terminal.
Frames == Len(SelectSeq(terminal, LAMBDA e : e.kind = "frame"))

\* 5. The quiet mode: the launch line, the JSON callback, spinner.start() and
\* subprocess.run(cmd, env=env, capture_output=True, text=True) is entered.
LaunchQuiet ==
    /\ main_pc = "mode"
    /\ ~interactive_mode(args)
    /\ terminal' = Append(terminal, Entry("main", "launching"))
    /\ env' = [env EXCEPT ![Me] = quiet_env(@)]
    /\ stop_running' = FALSE
    /\ thread' = "check"
    /\ ext_proc' = [ext_proc EXCEPT ![Me] = <<[argv |-> cmd[Me], env |-> env'[Me]]>>]
    /\ called' = Append(called, "subprocess.run")
    /\ Goto("quiet_run")
    /\ UNCHANGED <<response, stop_pc, result, audit_log, cmd, vault_value,
                   atexit_funcs>>
    /\ MainFrame

\* Spinner.spin, the test of the while loop: the thread ends when
\* stop_running is set, else it goes on to write a frame.
SpinCheck ==
    /\ main_pc # "ended"
    /\ thread = "check"
    /\ stop_running \/ Frames < MaxFrames
    /\ thread' = IF stop_running THEN "finished" ELSE "write"
    /\ UNCHANGED <<response, main_pc, terminal, stop_running, stop_pc, result,
                   exit_status, audit_log, called, files, cmd, vault_value,
                   atexit_funcs, env, ext_proc>>
    /\ MainFrame

\* Spinner.spin, the body of the loop: a frame is written, then the sleep.
SpinWrite ==
    /\ main_pc # "ended"
    /\ thread = "write"
    /\ terminal' = Append(terminal, Entry("spinner", "frame"))
    /\ thread' = "check"
    /\ UNCHANGED <<response, main_pc, stop_running, stop_pc, result,
                   exit_status, audit_log, called, files, cmd, vault_value,
                   atexit_funcs, env, ext_proc>>
    /\ MainFrame

\* subprocess.run returns with the exit code and the captured output.
QuietCompleted ==
    /\ main_pc = "quiet_run"
    /\ \E rc \in ReturnCodes, out \in Stdouts :
        result' = <<[raised |-> "", returncode |-> rc, stdout |-> out]>>
    /\ Goto("finally")
    /\ UNCHANGED <<response, terminal, stop_running, thread, stop_pc, audit_log,
                   called, cmd, vault_value, atexit_funcs, env, ext_proc>>
    /\ MainFrame

\* The operator interrupts the quiet run: subprocess.run raises
\* KeyboardInterrupt and the except clause is entered.
QuietInterrupted ==
    /\ main_pc = "quiet_run"
    /\ result' = <<[raised |-> "KeyboardInterrupt", returncode |-> 0,
                    stdout |-> NoStdout]>>
    /\ Goto("except")
    /\ UNCHANGED <<response, terminal, stop_running, thread, stop_pc, audit_log,
                   called, cmd, vault_value, atexit_funcs, env, ext_proc>>
    /\ MainFrame

\* Where main goes on after a call of spinner.stop(): the notice after the
\* call of the except clause, the exit after the call of the finally clause
\* that sys.exit(130) runs, the report after the call of the finally clause
\* of a run that returned.
AfterStop(pc) ==
    CASE pc = "except"       -> "notice"
      [] pc = "finally"      -> "post"
      [] pc = "finally_exit" -> "exit130"

\* Spinner.stop, its first statement: self.stop_running = True.
StopSignal ==
    /\ main_pc \in {"except", "finally", "finally_exit"}
    /\ stop_pc = "idle"
    /\ stop_running' = TRUE
    /\ stop_pc' = "join"
    /\ UNCHANGED <<response, main_pc, terminal, thread, result,
                   exit_status, audit_log, called, files, cmd, vault_value,
                   atexit_funcs, env, ext_proc>>
    /\ MainFrame

\* Spinner.stop, self.thread.join(): it returns once the thread has ended.
StopJoin ==
    /\ main_pc # "ended"
    /\ stop_pc = "join"
    /\ thread \in {"none", "finished"}
    /\ stop_pc' = "clear"
    /\ UNCHANGED <<response, main_pc, terminal, stop_running, thread, result,
                   exit_status, audit_log, called, files, cmd, vault_value,
                   atexit_funcs, env, ext_proc>>
    /\ MainFrame

\* Spinner.stop, its last statements: the line is cleared.
StopClear ==
    /\ main_pc # "ended"
    /\ stop_pc = "clear"
    /\ terminal' = Append(terminal, Entry("spinner", "clear"))
    /\ stop_pc' = "idle"
    /\ Goto(AfterStop(main_pc))
    /\ UNCHANGED <<response, stop_running, thread, result, audit_log, called,
                   cmd, vault_value, atexit_funcs, env, ext_proc>>
    /\ MainFrame

\* The except clause after spinner.stop(): the notice, then sys.exit(130),
\* which runs the finally clause before the interpreter shuts down.
PrintNotice ==
    /\ main_pc = "notice"
    /\ terminal' = Append(terminal, Entry("main", "interrupted"))
    /\ Goto("finally_exit")
    /\ UNCHANGED <<response, stop_running, thread, stop_pc, result, audit_log,
                   called, cmd, vault_value, atexit_funcs, env, ext_proc>>
    /\ MainFrame

\* SystemExit(130) leaves main.
Exit130 ==
    /\ main_pc = "exit130"
    /\ Shutdown(130, "")
    /\ UNCHANGED <<response, terminal, stop_running, thread, stop_pc, result,
                   audit_log, called, cmd, vault_value, atexit_funcs, env,
                   ext_proc>>
    /\ MainFrame

\* "Handle fatal errors that prevent JSON output": the error, stderr and
\* stdout are printed and main exits with the code of the external process.
QuietFatal ==
    /\ main_pc = "post"
    /\ fatal_without_json(result[1])
    /\ terminal' = terminal \o <<Entry("main", "failed"), Entry("main", "stderr"),
                                 Entry("main", "stdout")>>
    /\ Shutdown(result[1].returncode, "")
    /\ UNCHANGED <<response, stop_running, thread, stop_pc, result, audit_log,
                   called, cmd, vault_value, atexit_funcs, env, ext_proc>>
    /\ MainFrame

\* parse_ansible_json(result.stdout), then sys.exit(result.returncode) or the
\* end of main; an exception of the call leaves main and the interpreter
\* prints the traceback and ends with code 1.
QuietReport ==
    /\ main_pc = "post"
    /\ ~fatal_without_json(result[1])
    /\ LET p == result[1].stdout.json
       IN  /\ terminal' = terminal
                \o (IF parse_printed(p) = <<>> THEN <<>>
                    ELSE <<Summary("report", parse_printed(p))>>)
                \o (IF parse_raises(p) THEN <<Entry("interpreter", "traceback")>>
                    ELSE <<>>)
           /\ Shutdown(IF parse_raises(p) THEN 1 ELSE result[1].returncode, "")
    /\ called' = Append(called, "parse_ansible_json")
    /\ UNCHANGED <<response, stop_running, thread, stop_pc, result, audit_log,
                   cmd, vault_value, atexit_funcs, env, ext_proc>>
    /\ MainFrame

\* The process is ended by a signal that the interpreter does not handle
\* (SIGTERM, SIGKILL): nothing more runs, the exit functions included.
Killed ==
    /\ main_pc # "ended"
    /\ exit_status' = <<[code |-> 143, signal |-> "SIGTERM"]>>
    /\ main_pc' = "ended"
    /\ UNCHANGED <<response, terminal, stop_running, thread, stop_pc, result,
                   audit_log, called, files, cmd, vault_value, atexit_funcs,
                   env, ext_proc>>
    /\ MainFrame

-----------------------------------------------------------------------------
(* Properties of main (SpecMain).                                          *)

\* The process has ended, and not by a signal from outside.
Ended == main_pc = "ended"
EndedByItself == Ended /\ exit_status[1].signal # "SIGTERM"

\* The operator interrupted the external call.
Interrupted == result # <<>> /\ result[1].raised = "KeyboardInterrupt"

\* The external process ended by itself, with the exit code c.
ExternalEnded(c) ==
    result # <<>> /\ result[1].raised # "KeyboardInterrupt" /\ result[1].returncode = c

\* A write of the given kind reached the terminal.
Printed(kind) == \E i \in 1..Len(terminal) : terminal[i].kind = kind

\* main has called the function.
HasCalled(f) == \E i \in 1..Len(called) : called[i] = f

\* C11 as stated: once the transient script has been created, it does not
\* exist after the process has ended, however the process ended.
C11_ScriptGoneAfterExit ==
    (Ended /\ atexit_funcs[Me] # {}) => ~path_exists(files[Me], tmp_file)

\* Where the launch line is on the terminal.
LaunchIndex == CHOOSE i \in 1..Len(terminal) : terminal[i].kind = "launching"

\* A step that prints something that does not come from the spinner.
PrintStep ==
    \E i \in (Len(terminal) + 1)..Len(terminal') : terminal'[i].by # "spinner"

\* C13 as stated: in the quiet mode, when something is printed after the
\* external call was entered, the spinner has been signalled and its thread
\* has ended; and no frame or line-clear sequence of the spinner comes after
\* the first such print on the terminal.
C13_NoSpinnerWriteAfterPrint ==
    /\ []((~interactive_mode(args) /\ Printed("launching")) =>
            ~\E i \in 1..Len(terminal), j \in 1..Len(terminal) :
                /\ LaunchIndex < i /\ i < j
                /\ terminal[i].by # "spinner"
                /\ terminal[j].by = "spinner")
    /\ [][(~interactive_mode(args) /\ HasCalled("subprocess.run") /\ PrintStep) =>
            (stop_running /\ thread = "finished")]_vars

\* C14 as stated: after an interrupt of the external call, in either mode,
\* the spinner is not running, the interruption notice has been printed and
\* the exit code is 130.
C14_InterruptHandled ==
    (EndedByItself /\ Interrupted) =>
        /\ thread \in {"none", "finished"}
        /\ Printed("interrupted")
        /\ exit_status[1].code = 130

\* C15 as stated: when the external process ended with a code c other than
\* 0, the wrapper ends with the exit code c.
C15_ExitCodePropagated ==
    \A c \in ReturnCodes \ {0} :
        (EndedByItself /\ ExternalEnded(c)) =>
            exit_status[1] = [code |-> c, signal |-> ""]

\* C16 as stated: when the captured output is text that json.loads rejects,
\* the raw output has been shown by the time the wrapper ends.
C16_RawOutputShown ==
    (EndedByItself /\ ~interactive_mode(args) /\ result # <<>>
     /\ result[1].raised = "" /\ ~result[1].stdout.json.valid) =>
        Printed("stdout")

\* C18 as stated: after an interrupt of the external call the wrapper has
\* called one of the two reducers before it ends.
C18_SummaryAfterInterrupt ==
    (EndedByItself /\ Interrupted) =>
        (HasCalled("parse_audit_log") \/ HasCalled("parse_ansible_json"))

\* The values of the -e option that hold the override auto_fix=true.
AutoFixOverrides ==
    {JoinVars(<<"auto_fix=true">>), JoinVars(<<"auto_fix=true", "generate_report=true">>)}

\* The external process was launched with the override auto_fix=true.
AutoFixLaunched ==
    /\ ext_proc[Me] # <<>>
    /\ LET argv == ext_proc[Me][1].argv
       IN  \E i \in 1..(Len(argv) - 1) :
              argv[i] = "-e" /\ argv[i + 1] \in AutoFixOverrides

\* The operator was asked to confirm the auto-fix, and what they answered.
AutoFixAsked == Printed("prompt_auto_fix")
AnsweredYes == Strip(response.auto_fix) = YES

\* C20: the external process is launched with auto_fix=true only if
\* --auto-fix was given as yes or the operator answered yes, white space
\* aside; after any other answer the wrapper has ended with code 1, no
\* external process was launched and no script was written.
C20_AutoFixGate ==
    /\ AutoFixLaunched =>
          (args.auto_fix = <<"yes">> \/ (AutoFixAsked /\ AnsweredYes))
    /\ (AutoFixAsked /\ ~AnsweredYes) =>
          /\ Ended /\ exit_status[1] = [code |-> 1, signal |-> ""]
          /\ ext_proc[Me] = <<>>
          /\ files[Me] = {} /\ atexit_funcs[Me] = {}
          /\ ~HasCalled("setup_vault_password") /\ ~HasCalled("subprocess.run")

\* The bare option, " yes" and a tab typed at the prompt, a vault password
\* given, and the external process launched with auto_fix=true and the
\* script written.
C20_Witness ==
    /\ args.auto_fix = <<"prompt">>
    /\ AutoFixAsked
    /\ response.auto_fix = <<" ", "y", "e", "s", "\t">>
    /\ AutoFixLaunched
    /\ files[Me] # {}

-----------------------------------------------------------------------------
(* The specifications.                                                     *)

InitReport == ReportIdle /\ HistoryIdle /\ VaultIdle /\ MainIdle

NextReport == ParseFailure \/ ReduceSingleHost \/ ReduceTwoHosts

SpecReport == InitReport /\ [][NextReport]_vars

InitHistory == ReportIdle /\ HistoryIdle /\ VaultIdle /\ MainIdle

NextHistory == NoLogFile \/ OpenLog \/ ReadLine \/ LogError \/ EndOfLog

SpecHistory == InitHistory /\ [][NextHistory]_vars

InitVault == ReportIdle /\ HistoryIdle /\ VaultStart /\ MainIdle

NextVault ==
    \E r \in Runs :
        \/ SetupVault(r) \/ PrepareEnv(r) \/ RunExternal(r)
        \/ Teardown(r) \/ CleanupAgain(r)

SpecVault == InitVault /\ [][NextVault]_vars

InitMain ==
    /\ ReportIdle /\ HistoryIdle
    /\ VaultStart /\ secret[2] = "" /\ tmp_file = "/tmp/tmpab12.sh"
    /\ MainStart

NextMain ==
    \/ SafetyChecks \/ BuildCommand \/ MainSetupVault \/ MainPrepareEnv
    \/ LaunchInteractive \/ InteractiveCompleted \/ InteractiveSummary
    \/ InteractiveInterrupted
    \/ LaunchQuiet \/ SpinCheck \/ SpinWrite \/ QuietCompleted \/ QuietInterrupted
    \/ StopSignal \/ StopJoin \/ StopClear \/ PrintNotice \/ Exit130
    \/ QuietFatal \/ QuietReport
    \/ Killed

SpecMain == InitMain /\ [][NextMain]_vars

=============================================================================
